---------------------------- MODULE Spec2Model ----------------------------
(***************************************************************************)
(* Model of the two request handlers of the backend:                       *)
(*   POST /score  (backend/routers/score.py, score_reasoning)              *)
(*   POST /chat   (backend/routers/chat.py, chat and its generator)        *)
(* One request is followed from its arrival to its response.  The upstream *)
(* provider is a black box: every answer it can give is a nondeterministic *)
(* choice of the action that receives it.                                  *)
(*                                                                         *)
(* Texts are sequences of tokens.  A token is one character, or one JSON   *)
(* object member ("key": value) taken as a unit; the Python string and     *)
(* json operations are modelled on these sequences.                        *)
(***************************************************************************)
EXTENDS Integers, Sequences, FiniteSets, TLC

(* ------------------------------ bounds --------------------------------- *)
\* longest free text (in tokens) the provider answers with
MaxLen == 3
\* longest text before and after a JSON object in the provider's answer
MaxPad == 1
\* longest reasoning text of a request
MaxReasonLen == 20
\* longest upstream chat stream, in chunks
MaxChunks == 3

(* ------------------------- program constants --------------------------- *)
MinReasonLen == 20
MaxScore == 100

(* ------------------------------ values --------------------------------- *)
\* a JSON / Python value as the handler sees it: an int, None, or no value
JInt(n) == [ty |-> "int", n |-> n]
JNull == [ty |-> "null", n |-> 0]
Absent == [ty |-> "absent", n |-> 0]

ScoreKeys == {"score", "motive_points", "method_points", "logic_points"}

(* ------------------------------ tokens --------------------------------- *)
Ch(c) == [t |-> "ch", k |-> c, v |-> Absent]
Mem(key, val) == [t |-> "mem", k |-> key, v |-> val]

Digits == {"1", "5", "8"}
Chars == {"{", "}", " ", ",", "-", "x"} \cup Digits
\* values the provider writes into a member
MemValues == {JInt(60), JInt(150), JNull}
FreeTokens == {Ch(c) : c \in Chars} \cup {Mem("score", JInt(60)), Mem("other", JInt(60))}
PadTokens == {Ch(" "), Ch("x"), Ch("}")}

DigitVal(c) == CASE c = "1" -> 1 [] c = "5" -> 5 [] c = "8" -> 8 [] OTHER -> 0

Seqs(S, n) == UNION {[1..k -> S] : k \in 0..n}

(* ------------------------- Python str methods -------------------------- *)
\* str.find: index (from 0) of the first occurrence, -1 when there is none
find(text, c) ==
  IF \E i \in 1..Len(text) : text[i] = Ch(c)
  THEN (CHOOSE i \in 1..Len(text) :
          /\ text[i] = Ch(c)
          /\ \A j \in 1..(i-1) : text[j] # Ch(c)) - 1
  ELSE -1

\* str.rfind: index (from 0) of the last occurrence, -1 when there is none
rfind(text, c) ==
  IF \E i \in 1..Len(text) : text[i] = Ch(c)
  THEN (CHOOSE i \in 1..Len(text) :
          /\ text[i] = Ch(c)
          /\ \A j \in (i+1)..Len(text) : text[j] # Ch(c)) - 1
  ELSE -1

\* text[start:end]
Slice(text, start, end) == SubSeq(text, start + 1, end)

RECURSIVE lstrip(_)
lstrip(text) ==
  IF text # <<>> /\ Head(text) = Ch(" ") THEN lstrip(Tail(text)) ELSE text

RECURSIVE rstrip(_)
rstrip(text) ==
  IF text # <<>> /\ text[Len(text)] = Ch(" ")
  THEN rstrip(SubSeq(text, 1, Len(text) - 1))
  ELSE text

\* str.strip
strip(text) == rstrip(lstrip(text))

(* ------------------------------ int() ---------------------------------- *)
IsDigit(tok) == tok.t = "ch" /\ tok.k \in Digits

RECURSIVE DecimalValue(_)
DecimalValue(ds) ==
  IF ds = <<>> THEN 0
  ELSE 10 * DecimalValue(SubSeq(ds, 1, Len(ds) - 1)) + DigitVal(ds[Len(ds)].k)

\* int(text): surrounding whitespace is dropped, then an optional sign and
\* one or more digits; anything else raises ValueError (ok = FALSE)
py_int(text) ==
  LET t == strip(text)
      neg == t # <<>> /\ Head(t) = Ch("-")
      ds == IF neg THEN Tail(t) ELSE t
  IN IF ds # <<>> /\ \A i \in 1..Len(ds) : IsDigit(ds[i])
     THEN [ok |-> TRUE, n |-> IF neg THEN 0 - DecimalValue(ds) ELSE DecimalValue(ds)]
     ELSE [ok |-> FALSE, n |-> 0]

(* --------------------------- json.loads -------------------------------- *)
NotSpace(tok) == tok # Ch(" ")

\* the dict of a member list: a repeated key keeps its last value
DictOf(ms) ==
  [key \in ScoreKeys \cup {"other"} |->
     IF \E i \in 1..Len(ms) : ms[i].t = "mem" /\ ms[i].k = key
     THEN ms[CHOOSE i \in 1..Len(ms) :
               /\ ms[i].t = "mem" /\ ms[i].k = key
               /\ \A j \in (i+1)..Len(ms) : ~(ms[j].t = "mem" /\ ms[j].k = key)].v
     ELSE Absent]

\* json.loads of a text: an object is "{", members separated by ",", "}",
\* with whitespace allowed between tokens; anything else raises (ok = FALSE)
json_loads(s) ==
  IF Len(s) >= 2 /\ s[1] = Ch("{") /\ s[Len(s)] = Ch("}")
  THEN LET inner == SelectSeq(SubSeq(s, 2, Len(s) - 1), NotSpace)
           wellFormed ==
             \/ inner = <<>>
             \/ /\ Len(inner) % 2 = 1
                /\ \A i \in 1..Len(inner) :
                     IF i % 2 = 1 THEN inner[i].t = "mem" ELSE inner[i] = Ch(",")
       IN IF wellFormed THEN [ok |-> TRUE, obj |-> DictOf(inner)]
                        ELSE [ok |-> FALSE, obj |-> DictOf(<<>>)]
  ELSE [ok |-> FALSE, obj |-> DictOf(<<>>)]

\* dict.get(key, default)
DictGet(obj, key, default) == IF obj[key] = Absent THEN default ELSE obj[key]


(* --------------------------- score responses --------------------------- *)
\* {"score": s, "breakdown": {"score": s, "motive_points": ..., ...}}
ScoreResp(s, mo, me, lo) ==
  [status |-> 200, score |-> s,
   breakdown |-> [score |-> s, motive_points |-> mo,
                  method_points |-> me, logic_points |-> lo]]

\* HTTPException(status_code=500): no score in the body
ErrorResp ==
  [status |-> 500, score |-> Absent,
   breakdown |-> [score |-> Absent, motive_points |-> Absent,
                  method_points |-> Absent, logic_points |-> Absent]]

\* no response sent yet
NoResp ==
  [status |-> 0, score |-> Absent,
   breakdown |-> [score |-> Absent, motive_points |-> Absent,
                  method_points |-> Absent, logic_points |-> Absent]]

IncorrectResp == ScoreResp(JInt(0), JInt(0), JInt(0), JInt(0))

ShortResp == ScoreResp(JInt(10), JInt(3), JInt(3), JInt(4))

FallbackResp_bad == ScoreResp(JInt(50), JInt(15), JInt(15), JInt(15))

FallbackResp == ScoreResp(JInt(50), JInt(15), JInt(15), JInt(20))

(* ------------------------ score_reasoning: routing --------------------- *)
IsShort_bad(reasoning) == reasoning <= MinReasonLen

\* not request.reasoning or len(request.reasoning) < 20
IsShort(reasoning) == reasoning = 0 \/ reasoning < MinReasonLen

Route_bad(r) ==
  IF IsShort(r.reasoning) THEN "short"
  ELSE IF ~r.is_correct THEN "incorrect"
  ELSE "llm"

\* the order of the two early returns
Route(r) ==
  IF ~r.is_correct THEN "incorrect"
  ELSE IF IsShort(r.reasoning) THEN "short"
  ELSE "llm"

(* ------------------------ score_reasoning: tiers ----------------------- *)
NoReturn == [ret |-> FALSE, resp |-> NoResp]

TierB_bad(text) ==
  LET start == find(text, "{")
      end == rfind(text, "}") + 1
  IN IF start >= 0 /\ end > start
     THEN LET parsed == json_loads(Slice(text, start, end))
          IN IF parsed.ok
             THEN [ret |-> TRUE,
                   resp |-> ScoreResp(DictGet(parsed.obj, "score", JInt(50)),
                                      DictGet(parsed.obj, "motive_points", JInt(15)),
                                      DictGet(parsed.obj, "method_points", JInt(15)),
                                      DictGet(parsed.obj, "logic_points", JInt(15)))]
             ELSE NoReturn
     ELSE NoReturn

\* the inner try: the object between the first "{" and the last "}"
TierB(text) ==
  LET start == find(text, "{")
      end == rfind(text, "}") + 1
  IN IF start >= 0 /\ end > start
     THEN LET parsed == json_loads(Slice(text, start, end))
          IN IF parsed.ok
             THEN [ret |-> TRUE,
                   resp |-> ScoreResp(DictGet(parsed.obj, "score", JInt(50)),
                                      DictGet(parsed.obj, "motive_points", JInt(15)),
                                      DictGet(parsed.obj, "method_points", JInt(15)),
                                      DictGet(parsed.obj, "logic_points", JInt(20)))]
             ELSE NoReturn
     ELSE NoReturn

Max(a, b) == IF a >= b THEN a ELSE b
Min(a, b) == IF a <= b THEN a ELSE b

Clamp_bad(n) == Min(MaxScore, n)

\* max(0, min(100, score))
Clamp(n) == Max(0, Min(MaxScore, n))

\* int(score * 0.3) and int(score * 0.4): for every score in 0..100 the
\* double product truncates to the integer quotient
Times03(score) == (score * 3) \div 10
Times04(score) == (score * 4) \div 10

\* the bare number: int(content.strip()), clamped
TierC(text) ==
  LET r == py_int(strip(text))
  IN IF r.ok
     THEN LET score == Clamp(r.n)
          IN [ret |-> TRUE,
              resp |-> ScoreResp(JInt(score), JInt(Times03(score)),
                                 JInt(Times03(score)), JInt(Times04(score)))]
     ELSE NoReturn

\* what the handler answers to the free-form completion's message content
\* (None: content.find raises inside the inner try, content.strip raises
\* outside it and reaches the outer handler)
AfterFreeForm(c) ==
  IF c.none THEN [tier |-> "error", resp |-> ErrorResp]
  ELSE IF TierB(c.text).ret THEN [tier |-> "B", resp |-> TierB(c.text).resp]
  ELSE IF TierC(c.text).ret THEN [tier |-> "C", resp |-> TierC(c.text).resp]
  ELSE [tier |-> "D", resp |-> FallbackResp]


(* ------------------------ what the provider sends ---------------------- *)
KeyOrder == <<"score", "motive_points", "method_points", "logic_points">>

\* the members of an object, in key order, separated by commas;
\* o[key] = Absent leaves the key out
RECURSIVE MemberList(_, _)
MemberList(o, i) ==
  IF i > Len(KeyOrder) THEN <<>>
  ELSE LET rest == MemberList(o, i + 1)
       IN IF o[KeyOrder[i]] = Absent THEN rest
          ELSE IF rest = <<>> THEN <<Mem(KeyOrder[i], o[KeyOrder[i]])>>
          ELSE <<Mem(KeyOrder[i], o[KeyOrder[i]]), Ch(",")>> \o rest

Pads == Seqs(PadTokens, MaxPad)

\* a JSON object with text around it
ObjectTexts ==
  {pre \o <<Ch("{")>> \o MemberList(o, 1) \o <<Ch("}")>> \o suf :
     pre \in Pads, suf \in Pads, o \in [ScoreKeys -> MemValues \cup {Absent}]}

Texts == Seqs(FreeTokens, MaxLen) \cup ObjectTexts

\* completion.choices[0].message.content: None or a text
Contents ==
  {[none |-> TRUE, text |-> <<>>]} \cup {[none |-> FALSE, text |-> t] : t \in Texts}

\* the integers a parsed ReasoningScore can hold (pydantic checks the type only)
ParsedInts == {0 - 5, 25, 150}
ParsedScores ==
  [score : ParsedInts, motive_points : ParsedInts,
   method_points : ParsedInts, logic_points : ParsedInts]

\* why the structured call did not return a parsed score
StructuredFailures == {"transport", "no_choices", "not_parsed", "invalid"}

SolutionKeys == {"culprit", "method", "motive"}
Requests ==
  [is_correct : BOOLEAN, reasoning : 0..MaxReasonLen,
   solution : {{}, SolutionKeys}]
NoRequest == [is_correct |-> FALSE, reasoning |-> 0, solution |-> {}]

\* a chat fragment is a text of characters
Frags == {<<>>, <<"a">>, <<"b", "c">>}
\* a chunk of the upstream stream: delta.content is a text ("text") or None
\* ("none"), or the chunk has no choices ("no_choices"), or the iterator
\* raises instead of giving a chunk ("raise")
Chunks ==
  {[kind |-> "text", content |-> f] : f \in Frags}
    \cup {[kind |-> k, content |-> <<>>] : k \in {"none", "no_choices", "raise"}}
Streams == Seqs(Chunks, MaxChunks)

(* ------------------------------- state --------------------------------- *)
VARIABLES
  pc,        \* where the request is
  req,       \* the ScoreRequest
  callLog,   \* one entry per upstream call attempt: "answered" or "failed"
  content,   \* the free-form completion's message content
  resp,      \* the response sent to the caller
  tier,      \* the return statement that produced resp
  upstream,  \* the chunks the chat stream will give
  idx,       \* chunks taken from the stream so far
  out        \* fragments the caller has received

vars == <<pc, req, callLog, content, resp, tier, upstream, idx, out>>

scoreVars == <<req, content, tier>>
chatVars == <<upstream, idx, out>>

Init ==
  /\ pc = "idle"
  /\ req = NoRequest
  /\ callLog = <<>>
  /\ content = [none |-> TRUE, text |-> <<>>]
  /\ resp = NoResp
  /\ tier = "none"
  /\ upstream = <<>>
  /\ idx = 0
  /\ out = <<>>

(* --------------------------- POST /score ------------------------------- *)
ReceiveScore ==
  /\ pc = "idle"
  /\ \E r \in Requests : req' = r
  /\ pc' = "score"
  /\ UNCHANGED <<callLog, content, resp, tier, chatVars>>

ReturnIncorrect ==
  /\ pc = "score"
  /\ Route(req) = "incorrect"
  /\ resp' = IncorrectResp
  /\ tier' = "incorrect"
  /\ pc' = "done"
  /\ UNCHANGED <<req, callLog, content, chatVars>>

ReturnShort ==
  /\ pc = "score"
  /\ Route(req) = "short"
  /\ resp' = ShortResp
  /\ tier' = "short"
  /\ pc' = "done"
  /\ UNCHANGED <<req, callLog, content, chatVars>>

\* Tier A: the structured call returns a parsed ReasoningScore
StructuredReturns ==
  /\ pc = "score"
  /\ Route(req) = "llm"
  /\ \E p \in ParsedScores :
       resp' = ScoreResp(JInt(p.score), JInt(p.motive_points),
                         JInt(p.method_points), JInt(p.logic_points))
  /\ callLog' = Append(callLog, "answered")
  /\ tier' = "A"
  /\ pc' = "done"
  /\ UNCHANGED <<req, content, chatVars>>

\* Tier A raises (the call itself, or reading the parsed result): except
\* Exception goes on to the free-form call
StructuredFails ==
  /\ pc = "score"
  /\ Route(req) = "llm"
  /\ \E why \in StructuredFailures :
       callLog' = Append(callLog, IF why = "transport" THEN "failed" ELSE "answered")
  /\ pc' = "fallback"
  /\ UNCHANGED <<req, content, resp, tier, chatVars>>

\* the free-form call raises: the outer handler answers 500
FreeFormFails ==
  /\ pc = "fallback"
  /\ callLog' = Append(callLog, "failed")
  /\ resp' = ErrorResp
  /\ tier' = "error"
  /\ pc' = "done"
  /\ UNCHANGED <<req, content, chatVars>>

\* the free-form completion has no choices: choices[0] raises IndexError
\* outside the inner try
FreeFormNoChoices ==
  /\ pc = "fallback"
  /\ callLog' = Append(callLog, "answered")
  /\ resp' = ErrorResp
  /\ tier' = "error"
  /\ pc' = "done"
  /\ UNCHANGED <<req, content, chatVars>>

\* the free-form completion has a message: Tiers B, C and D
FreeFormAnswers ==
  /\ pc = "fallback"
  /\ \E c \in Contents :
       /\ content' = c
       /\ resp' = AfterFreeForm(c).resp
       /\ tier' = AfterFreeForm(c).tier
  /\ callLog' = Append(callLog, "answered")
  /\ pc' = "done"
  /\ UNCHANGED <<req, chatVars>>

(* ---------------------------- POST /chat ------------------------------- *)
\* StreamingResponse(generate(), media_type="text/plain")
StreamResp == [NoResp EXCEPT !.status = 200]

\* if chunk.choices[0].delta.content:
HasText(chunk) == chunk.kind = "text" /\ chunk.content # <<>>

Emit_bad(o, f) == <<f>> \o o

\* yield: the caller receives the fragment after those it already has
Emit(o, f) == Append(o, f)

ReceiveChat ==
  /\ pc = "idle"
  /\ pc' = "chat"
  /\ UNCHANGED <<callLog, resp, scoreVars, chatVars>>

ChatOpenFails_bad ==
  /\ pc = "chat"
  /\ Len(callLog) < 3
  /\ callLog' = Append(callLog, "failed")
  /\ UNCHANGED <<pc, resp, scoreVars, chatVars>>

\* client.chat.completions.create raises: except Exception answers 500
ChatOpenFails ==
  /\ pc = "chat"
  /\ callLog' = Append(callLog, "failed")
  /\ resp' = ErrorResp
  /\ pc' = "failed"
  /\ UNCHANGED <<scoreVars, chatVars>>

\* the stream is opened and the streaming response returned
ChatOpens ==
  /\ pc = "chat"
  /\ \E s \in Streams : upstream' = s
  /\ callLog' = Append(callLog, "answered")
  /\ resp' = StreamResp
  /\ pc' = "stream"
  /\ UNCHANGED <<scoreVars, idx, out>>

\* for chunk in stream: the stream is exhausted
GenExhausted ==
  /\ pc = "stream"
  /\ idx = Len(upstream)
  /\ pc' = "closed"
  /\ UNCHANGED <<callLog, resp, scoreVars, chatVars>>

\* a chunk whose content is None or empty is passed over
GenSkips ==
  /\ pc = "stream"
  /\ idx < Len(upstream)
  /\ upstream[idx + 1].kind \in {"text", "none"}
  /\ ~HasText(upstream[idx + 1])
  /\ idx' = idx + 1
  /\ UNCHANGED <<pc, callLog, resp, scoreVars, upstream, out>>

\* a chunk with text is taken: the generator is at its yield
GenTakes ==
  /\ pc = "stream"
  /\ idx < Len(upstream)
  /\ HasText(upstream[idx + 1])
  /\ idx' = idx + 1
  /\ pc' = "yield"
  /\ UNCHANGED <<callLog, resp, scoreVars, upstream, out>>

GenYields ==
  /\ pc = "yield"
  /\ out' = Emit(out, upstream[idx].content)
  /\ pc' = "stream"
  /\ UNCHANGED <<callLog, resp, scoreVars, upstream, idx>>

GenAborts_bad ==
  /\ pc = "stream"
  /\ idx < Len(upstream)
  /\ upstream[idx + 1].kind \in {"no_choices", "raise"}
  /\ idx' = idx + 1
  /\ resp' = ErrorResp
  /\ pc' = "aborted"
  /\ UNCHANGED <<callLog, scoreVars, upstream, out>>

\* the iterator raises, or the chunk has no choices: the exception leaves
\* the generator after the response has started, so the stream just ends
GenAborts ==
  /\ pc = "stream"
  /\ idx < Len(upstream)
  /\ upstream[idx + 1].kind \in {"no_choices", "raise"}
  /\ idx' = idx + 1
  /\ pc' = "aborted"
  /\ UNCHANGED <<callLog, resp, scoreVars, upstream, out>>

Next ==
  \/ ReceiveScore
  \/ ReturnIncorrect
  \/ ReturnShort
  \/ StructuredReturns
  \/ StructuredFails
  \/ FreeFormFails
  \/ FreeFormNoChoices
  \/ FreeFormAnswers
  \/ ReceiveChat
  \/ ChatOpenFails
  \/ ChatOpens
  \/ GenExhausted
  \/ GenSkips
  \/ GenTakes
  \/ GenYields
  \/ GenAborts

Spec == Init /\ [][Next]_vars


(* ------------------------- notions of the claims ----------------------- *)
ScorePcs == {"score", "fallback", "done"}
ChatPcs == {"chat", "failed", "stream", "yield", "closed", "aborted"}

\* the free-form completion's content was a text and the handler answered it
AnsweredText == pc = "done" /\ ~content.none

\* positions (from 1) of the first "{" and of the last "}" of a text
FirstOpen(text) == find(text, "{") + 1
LastClose(text) == rfind(text, "}") + 1

\* the text has a "{" and a later "}" and what lies between them, both
\* included, is a JSON object
HasObject(text) ==
  /\ FirstOpen(text) >= 1
  /\ LastClose(text) > FirstOpen(text)
  /\ json_loads(SubSeq(text, FirstOpen(text), LastClose(text))).ok

\* the value the object of the text gives a key, or the default
ObjectField(text, key, default) ==
  LET body == SubSeq(text, FirstOpen(text), LastClose(text))
      at == {i \in 1..Len(body) : body[i].t = "mem" /\ body[i].k = key}
  IN IF at = {} THEN JInt(default)
     ELSE body[CHOOSE i \in at : \A j \in at : j <= i].v

\* the trimmed text is an integer
IsInteger(text) == py_int(strip(text)).ok
IntegerOf(text) == py_int(strip(text)).n

Clamped(n) == IF n < 0 THEN 0 ELSE IF n > 100 THEN 100 ELSE n

\* the contents of the chunks that carry text, in order
RECURSIVE TextFragments(_)
TextFragments(s) ==
  IF s = <<>> THEN <<>>
  ELSE IF Head(s).kind = "text" /\ Head(s).content # <<>>
       THEN <<Head(s).content>> \o TextFragments(Tail(s))
       ELSE TextFragments(Tail(s))

\* every text content of the chunks, empty ones included, joined
RECURSIVE JoinedText(_)
JoinedText(s) ==
  IF s = <<>> THEN <<>>
  ELSE IF Head(s).kind = "text"
       THEN Head(s).content \o JoinedText(Tail(s))
       ELSE JoinedText(Tail(s))

RECURSIVE Join(_)
Join(fs) == IF fs = <<>> THEN <<>> ELSE Head(fs) \o Join(Tail(fs))

IsPrefix(a, b) == Len(a) <= Len(b) /\ SubSeq(b, 1, Len(a)) = a

(* -------------------------------- claims ------------------------------- *)

\* C1: a /score request with is_correct = false is answered score 0 with
\* breakdown 0/0/0/0, whatever its reasoning and solution, without any
\* upstream call, and before the short-reasoning check is looked at.
C1_IncorrectIsZero ==
  (pc = "done" /\ ~req.is_correct) =>
    /\ resp = ScoreResp(JInt(0), JInt(0), JInt(0), JInt(0))
    /\ tier = "incorrect"
    /\ callLog = <<>>

C1_Witness ==
  pc = "done" /\ ~req.is_correct /\ req.reasoning < 20 /\ resp.score = JInt(0)

\* C2: a /score request with is_correct = true and a reasoning of fewer
\* than 20 characters (none included) is answered score 10 with breakdown
\* 10/3/3/4, and a reasoning of 20 characters or more never takes this return.
C2_ShortIsTen ==
  (pc = "done" /\ req.is_correct) =>
    /\ req.reasoning < 20 =>
         resp = ScoreResp(JInt(10), JInt(3), JInt(3), JInt(4)) /\ tier = "short"
    /\ req.reasoning >= 20 => tier # "short"

C2_Witness ==
  pc = "done" /\ req.is_correct /\ req.reasoning = 19 /\ resp.score = JInt(10)

\* C3: when the free-form text has a JSON object between its first "{" and
\* its last "}", the response takes the four fields from that object and
\* gives an absent key its default (50, 15, 15, 20); the text around the
\* object does not matter.
C3_TierBFromObject ==
  (AnsweredText /\ HasObject(content.text)) =>
    /\ tier = "B"
    /\ resp = ScoreResp(ObjectField(content.text, "score", 50),
                        ObjectField(content.text, "motive_points", 15),
                        ObjectField(content.text, "method_points", 15),
                        ObjectField(content.text, "logic_points", 20))

C3_Witness ==
  /\ AnsweredText /\ tier = "B"
  /\ FirstOpen(content.text) > 1
  /\ LastClose(content.text) < Len(content.text)
  /\ resp.score = JInt(60)
  /\ resp.breakdown.motive_points = JInt(150)
  /\ resp.breakdown.logic_points = JInt(20)

\* C4: when Tier B returned nothing and the trimmed text is an integer n,
\* the response is s = max(0, min(100, n)) with sub-scores floor(0.3 s),
\* floor(0.3 s) and floor(0.4 s).
C4_TierCClamped ==
  (AnsweredText /\ ~HasObject(content.text) /\ IsInteger(content.text)) =>
    LET s == Clamped(IntegerOf(content.text))
    IN /\ tier = "C"
       /\ resp = ScoreResp(JInt(s), JInt((3 * s) \div 10),
                           JInt((3 * s) \div 10), JInt((4 * s) \div 10))

C4_Witness ==
  /\ AnsweredText /\ tier = "C"
  /\ IntegerOf(content.text) < 0
  /\ Head(content.text) = Ch(" ")
  /\ resp.score = JInt(0)

\* C5: when the free-form text has no parseable object between its first
\* "{" and last "}" and is not, once trimmed, an integer, the response is
\* the fixed default 50 with breakdown 50/15/15/20.
C5_TierDDefault ==
  (AnsweredText /\ ~HasObject(content.text) /\ ~IsInteger(content.text)) =>
    /\ tier = "D"
    /\ resp = ScoreResp(JInt(50), JInt(15), JInt(15), JInt(20))

C5_Witness ==
  /\ AnsweredText /\ tier = "D"
  /\ FirstOpen(content.text) >= 1
  /\ LastClose(content.text) > FirstOpen(content.text)
  /\ resp.score = JInt(50)

\* C6: the caller of /chat receives the text fragments of the upstream
\* chunks in the order they came, nothing added, dropped or reordered; a
\* fragment is emitted before the next chunk is taken; when the stream ends
\* without error the caller has exactly the upstream fragments.
C6_RelayInOrder ==
  /\ pc \in {"stream", "closed"} => out = TextFragments(SubSeq(upstream, 1, idx))
  /\ pc = "yield" =>
       /\ out = TextFragments(SubSeq(upstream, 1, idx - 1))
       /\ TextFragments(SubSeq(upstream, 1, idx)) = Append(out, upstream[idx].content)
  /\ pc = "closed" =>
       /\ idx = Len(upstream)
       /\ out = TextFragments(upstream)
       /\ Join(out) = JoinedText(upstream)

C6_Witness ==
  /\ pc = "closed"
  /\ Len(out) >= 2
  /\ out[1] # out[2]
  /\ Len(upstream) > Len(out)

\* C7: on the external-model path, when the provider answers every call, no
\* problem in the shape of its answers gives an error response: the handler
\* returns a score response with a numeric score.
C7_ShapeNeverErrors ==
  (pc = "done" /\ tier \in {"A", "B", "C", "D", "error"}
     /\ \A i \in 1..Len(callLog) : callLog[i] = "answered") =>
    resp.status = 200 /\ resp.score.ty = "int"

\* C8 as stated: after a failed upstream call no further call is made and
\* the request ends with an error response; /score makes at most one call.
C8_NoRetryAtAll ==
  /\ pc \in ScorePcs => Len(callLog) <= 1
  /\ \A i \in 1..Len(callLog) :
       callLog[i] = "failed" =>
         /\ i = Len(callLog)
         /\ pc \in {"done", "failed"} => resp.status = 500

\* C8 amended: /chat makes one upstream call and its failure ends the
\* request with an error response; /score makes at most two, the free-form
\* call being made once, after the structured call raised for whatever
\* reason, and a failure of the free-form call ends the request with an
\* error response.
C8_NoRetryOfFallback ==
  /\ pc \in ChatPcs =>
       /\ Len(callLog) <= 1
       /\ (callLog = <<"failed">> => pc = "failed" /\ resp.status = 500)
  /\ pc \in ScorePcs =>
       /\ Len(callLog) <= 2
       /\ Len(callLog) = 2 => pc = "done"
       /\ (Len(callLog) = 2 /\ callLog[2] = "failed") => resp.status = 500
       /\ (pc = "done" /\ Len(callLog) = 1) => callLog[1] = "answered"

C8_Witness ==
  pc = "done" /\ callLog = <<"failed", "answered">> /\ resp.status = 200

\* C9: every score response has score in 0..100, motive_points in 0..30,
\* method_points in 0..30 and logic_points in 0..40, all integers.
C9_ScoreRanges ==
  (pc = "done" /\ resp.status = 200) =>
    /\ resp.score.ty = "int" /\ resp.score.n \in 0..100
    /\ resp.breakdown.score = resp.score
    /\ resp.breakdown.motive_points.ty = "int"
    /\ resp.breakdown.motive_points.n \in 0..30
    /\ resp.breakdown.method_points.ty = "int"
    /\ resp.breakdown.method_points.n \in 0..30
    /\ resp.breakdown.logic_points.ty = "int"
    /\ resp.breakdown.logic_points.n \in 0..40

\* C10: a /chat request ends with a 500 and no fragment emitted when opening
\* the stream fails; otherwise the streaming response has started, an error
\* in mid-stream only ends it, the caller's output is a prefix of the
\* upstream fragments, and no 500 follows an emitted fragment.
C10_ChatOutcomes ==
  /\ pc = "failed" => resp.status = 500 /\ out = <<>> /\ idx = 0
  /\ pc \in {"stream", "yield", "closed", "aborted"} => resp.status = 200
  /\ pc \in ChatPcs => IsPrefix(out, TextFragments(upstream))
  /\ out # <<>> => resp.status # 500
  /\ pc = "aborted" => out = TextFragments(SubSeq(upstream, 1, idx - 1))

C10_Witness ==
  /\ pc = "aborted"
  /\ Len(out) >= 1
  /\ Len(out) < Len(TextFragments(upstream))

=============================================================================
